---------------------------- MODULE Spec2Model ----------------------------
(***************************************************************************)
(* The arithmetic expression evaluator of practical_sys_prog: the REPL of  *)
(* src/src/main.rs, the tokenizer of chapter-2/src/parsemaths/tokenizer.rs,*)
(* the precedence-climbing parser of chapter-2/src/parsemaths/parser.rs,   *)
(* the token/precedence types of src/src/parsemaths/token.rs and the tree  *)
(* evaluator of chapter-2/src/parsemaths/ast.rs.  The second program of    *)
(* the repository, the template line classifier of chapter-3/src/lib.rs    *)
(* with the loop of chapter-3/src/main.rs, is a separate binary: Spec runs *)
(* the evaluator, TemplateSpec runs the classifier.                        *)
(*                                                                         *)
(* A string is a sequence of one-character strings.  The recursive parser  *)
(* is run as a machine with an explicit call stack: one frame per active   *)
(* call of generate_ast, parse_number or convert_token_to_node, one action *)
(* per stretch of code between two calls.                                  *)
(*                                                                         *)
(* f64 values are modelled by rationals n/d in lowest terms and f64         *)
(* rounding is not modelled; a result that is non-finite, irrational or    *)
(* beyond ValueCap is the single value Inexact.                            *)
(***************************************************************************)
EXTENDS Integers, Sequences, FiniteSets, TLC

VARIABLES stdin, input, outputs, mpc, expr, pos, tok_start, current_token,
          stack, ret, ast,
          lines, input_line, content, printed, tpc

\* the state of the template program
tvars == <<lines, input_line, content, printed, tpc>>

\* the state of the expression evaluator
pvars == <<stdin, input, outputs, mpc, expr, pos, tok_start, current_token,
           stack, ret, ast>>

vars == <<stdin, input, outputs, mpc, expr, pos, tok_start, current_token,
          stack, ret, ast, lines, input_line, content, printed, tpc>>

(***************************************************************************)
(* stdin          the lines typed and not yet read                         *)
(* input          main's line buffer                                       *)
(* outputs        per call of evaluate: the line, what parse returned, the *)
(*                lookahead at that moment, and what evaluate returned     *)
(* mpc            where main and evaluate stand                            *)
(* expr, pos      the tokenizer: its text and the characters consumed      *)
(* tok_start      the characters consumed before the lookahead was read    *)
(*                (history only: the code keeps no positions)              *)
(* current_token  the parser's one-token lookahead                         *)
(* stack, ret     the active calls of the parser's private methods, and    *)
(*                the value the last finished call returned                *)
(* ast            evaluate's local: the tree parse returned                *)
(* lines          chapter-3: the lines of standard input not yet read      *)
(* input_line     chapter-3: the line handed to get_content_type           *)
(* content        chapter-3: what get_content_type returned for it         *)
(* printed        chapter-3: what main printed, line by line               *)
(* tpc            chapter-3: where its main stands                         *)
(***************************************************************************)

---------------------------------------------------------------------------
(* Bounds of the model *)

\* longest expression of the exhaustively enumerated input lines
MaxLen == 3

\* largest numerator / denominator the evaluator follows exactly
ValueCap == 30000

\* longest of the exhaustively enumerated template lines
MaxLine == 5

---------------------------------------------------------------------------
(* Characters *)

Digits == {"0", "1", "2", "3", "4", "5", "6", "7", "8", "9"}

\* a character for which char::is_numeric holds although it is no ASCII digit
SuperscriptTwo == "U+00B2"

Whitespace == {" ", "\n"}

DigitVal(c) ==
    CASE c = "0" -> 0 [] c = "1" -> 1 [] c = "2" -> 2 [] c = "3" -> 3
      [] c = "4" -> 4 [] c = "5" -> 5 [] c = "6" -> 6 [] c = "7" -> 7
      [] c = "8" -> 8 [] c = "9" -> 9

\* char::is_numeric, as used by the numeric scanner
IsNumeric(c) == c \in Digits \/ c = SuperscriptTwo

---------------------------------------------------------------------------
(* f64 values *)

Inexact == [n |-> 0, d |-> 0]

Abs(x) == IF x < 0 THEN -x ELSE x

RECURSIVE Gcd(_, _)
Gcd(a, b) ==
    IF b = 0 THEN a
    ELSE CHOOSE g \in {Gcd(y, x % y) : x \in {a}, y \in {b}} : TRUE

\* the rational n/d (d # 0) in lowest terms with a positive denominator
Rat(n, d) ==
    LET g == Gcd(Abs(n), Abs(d))
        s == IF d < 0 THEN -1 ELSE 1
    IN  IF Abs(n) \div g > ValueCap \/ Abs(d) \div g > ValueCap
        THEN Inexact
        ELSE [n |-> s * (n \div g), d |-> s * (d \div g)]

IsExact(v) == v.d # 0

RECURSIVE Pow10(_)
Pow10(k) == IF k = 0 THEN 1 ELSE 10 * Pow10(k - 1)

RECURSIVE Mantissa(_, _, _)
Mantissa(text, i, acc) ==
    IF i > Len(text) THEN acc
    ELSE IF text[i] = "." THEN Mantissa(text, i + 1, acc)
    ELSE Mantissa(text, i + 1, 10 * acc + DigitVal(text[i]))

\* str::parse::<f64> on a text made of numeric characters and '.', the only
\* texts the scanner accumulates: the text is a float iff its characters are
\* ASCII digits with at most one decimal point
ParseF64(text) ==
    LET dots == {i \in DOMAIN text : text[i] = "."}
        valid == /\ \A i \in DOMAIN text : text[i] \in Digits \cup {"."}
                 /\ Cardinality(dots) <= 1
        frac == IF dots = {} THEN 0
                ELSE Len(text) - (CHOOSE i \in dots : TRUE)
    IN  IF valid
        THEN [ok |-> TRUE,
              val |-> LET m == Mantissa(text, 1, 0)
                          p == Pow10(frac)
                          g == Gcd(m, p)
                      IN  [n |-> m \div g, d |-> p \div g]]
        ELSE [ok |-> FALSE, val |-> Inexact]

FAdd(a, b) == IF IsExact(a) /\ IsExact(b) /\ Abs(a.n) <= ValueCap /\ Abs(b.n) <= ValueCap
                 /\ a.d <= ValueCap /\ b.d <= ValueCap
              THEN Rat(a.n * b.d + b.n * a.d, a.d * b.d) ELSE Inexact

FNeg(a) == IF IsExact(a) THEN [n |-> -a.n, d |-> a.d] ELSE Inexact

FSub(a, b) == FAdd(a, FNeg(b))

FMul(a, b) == IF IsExact(a) /\ IsExact(b) /\ Abs(a.n) <= ValueCap /\ Abs(b.n) <= ValueCap
                 /\ a.d <= ValueCap /\ b.d <= ValueCap
              THEN Rat(a.n * b.n, a.d * b.d) ELSE Inexact

\* x / 0.0 is an infinity or NaN
FDiv(a, b) == IF IsExact(a) /\ IsExact(b) /\ b.n # 0
              THEN FMul(a, [n |-> Abs(b.d) * (IF b.n < 0 THEN -1 ELSE 1), d |-> Abs(b.n)])
              ELSE Inexact

RECURSIVE FPowNat(_, _)
FPowNat(a, k) ==
    IF k = 0 THEN [n |-> 1, d |-> 1]
    ELSE IF ~IsExact(a) THEN Inexact
    ELSE IF a = [n |-> 1, d |-> 1] \/ a.n = 0 THEN a
    ELSE CHOOSE p \in {IF k % 2 = 0 THEN sq ELSE FMul(sq, a) :
                        sq \in {FMul(h, h) : h \in {FPowNat(a, k \div 2)}}} : TRUE

\* f64::powf, followed exactly for integer exponents
FPow(a, b) ==
    IF ~(IsExact(a) /\ IsExact(b)) \/ b.d # 1 THEN Inexact
    ELSE IF b.n >= 0 THEN FPowNat(a, b.n)
    ELSE FDiv([n |-> 1, d |-> 1], FPowNat(a, -b.n))

---------------------------------------------------------------------------
(* Tokens and precedence levels: token.rs *)

Tok(type) == [type |-> type]

Num(v) == [type |-> "Num", val |-> v]

EoF == Tok("EoF")

LeftParen == Tok("LeftParen")

RightParen == Tok("RightParen")

\* no token: the lookahead before Parser::new has stored one
NoToken == Tok("None")

\* derive(PartialOrd) on OperPrec orders the variants as they are declared
OperPrecRank(p) ==
    CASE p = "DefaultZero" -> 0
      [] p = "AddSub" -> 1
      [] p = "MulDiv" -> 2
      [] p = "Power" -> 3
      [] p = "Negative" -> 4

get_oper_prec_no_caret(t) ==
    CASE t.type \in {"Add", "Subtract"} -> "AddSub"
      [] t.type \in {"Multiply", "Divide"} -> "MulDiv"
      [] OTHER -> "DefaultZero"

get_oper_prec_swapped(t) ==
    CASE t.type \in {"Add", "Subtract"} -> "MulDiv"
      [] t.type \in {"Multiply", "Divide"} -> "AddSub"
      [] t.type = "Caret" -> "Power"
      [] OTHER -> "DefaultZero"

get_oper_prec_paren_binds(t) ==
    CASE t.type \in {"Add", "Subtract"} -> "AddSub"
      [] t.type \in {"Multiply", "Divide"} -> "MulDiv"
      [] t.type = "Caret" -> "Power"
      [] t.type = "RightParen" -> "AddSub"
      [] OTHER -> "DefaultZero"

get_oper_prec(t) ==
    CASE t.type \in {"Add", "Subtract"} -> "AddSub"
      [] t.type \in {"Multiply", "Divide"} -> "MulDiv"
      [] t.type = "Caret" -> "Power"
      [] OTHER -> "DefaultZero"

---------------------------------------------------------------------------
(* Tokenizer: tokenizer.rs *)

\* the numeric scanner's while-let loop: the index of the last character it
\* consumes, having consumed up to j
RECURSIVE ScanNumber(_, _)
ScanNumber(e, j) ==
    IF j < Len(e) /\ (IsNumeric(e[j + 1]) \/ e[j + 1] = ".")
    THEN ScanNumber(e, j + 1)
    ELSE j

SingleCharToken(c) ==
    CASE c = "+" -> Tok("Add")
      [] c = "-" -> Tok("Subtract")
      [] c = "*" -> Tok("Multiply")
      [] c = "/" -> Tok("Divide")
      [] c = "^" -> Tok("Caret")
      [] c = "(" -> LeftParen
      [] c = ")" -> RightParen

Tokenizer_next_none_at_end(e, p) ==
    IF p >= Len(e) THEN [kind |-> "None", tok |-> NoToken, pos |-> p]
    ELSE LET c == e[p + 1] IN
      IF c \in Digits
      THEN LET j == ScanNumber(e, p + 1)
               f == ParseF64(SubSeq(e, p + 1, j))
           IN  IF j < Len(e) /\ e[j + 1] = "("
               THEN [kind |-> "None", tok |-> NoToken, pos |-> j]
               ELSE IF f.ok THEN [kind |-> "Some", tok |-> Num(f.val), pos |-> j]
               ELSE [kind |-> "Panic", tok |-> NoToken, pos |-> j]
      ELSE IF c \in {"+", "-", "*", "/", "^", "(", ")"}
      THEN [kind |-> "Some", tok |-> SingleCharToken(c), pos |-> p + 1]
      ELSE [kind |-> "None", tok |-> NoToken, pos |-> p + 1]

Tokenizer_next_accepts_paren(e, p) ==
    IF p >= Len(e) THEN [kind |-> "Some", tok |-> EoF, pos |-> p]
    ELSE LET c == e[p + 1] IN
      IF c \in Digits
      THEN LET j == ScanNumber(e, p + 1)
               f == ParseF64(SubSeq(e, p + 1, j))
           IN  IF f.ok THEN [kind |-> "Some", tok |-> Num(f.val), pos |-> j]
               ELSE [kind |-> "Panic", tok |-> NoToken, pos |-> j]
      ELSE IF c \in {"+", "-", "*", "/", "^", "(", ")"}
      THEN [kind |-> "Some", tok |-> SingleCharToken(c), pos |-> p + 1]
      ELSE [kind |-> "None", tok |-> NoToken, pos |-> p + 1]

\* Iterator::next of Tokenizer on the text e with p characters consumed:
\* Some(token), None, or a panic (unwrap of a failed parse::<f64>), and the
\* number of characters consumed afterwards
Tokenizer_next(e, p) ==
    IF p >= Len(e) THEN [kind |-> "Some", tok |-> EoF, pos |-> p]
    ELSE LET c == e[p + 1] IN
      IF c \in Digits
      THEN LET j == ScanNumber(e, p + 1)
               f == ParseF64(SubSeq(e, p + 1, j))
           IN  IF j < Len(e) /\ e[j + 1] = "("
               THEN [kind |-> "None", tok |-> NoToken, pos |-> j]
               ELSE IF f.ok THEN [kind |-> "Some", tok |-> Num(f.val), pos |-> j]
               ELSE [kind |-> "Panic", tok |-> NoToken, pos |-> j]
      ELSE IF c \in {"+", "-", "*", "/", "^", "(", ")"}
      THEN [kind |-> "Some", tok |-> SingleCharToken(c), pos |-> p + 1]
      ELSE [kind |-> "None", tok |-> NoToken, pos |-> p + 1]

---------------------------------------------------------------------------
(* Expression tree and evaluator: ast.rs *)

NoNode == [t |-> "None"]

Number(v) == [t |-> "Number", v |-> v]

Negative(e) == [t |-> "Negative", e |-> e]

Binary(t, l, r) == [t |-> t, l |-> l, r |-> r]

\* Node::eval; the operands are evaluated once, before the operation
RECURSIVE eval(_)
eval(node) ==
    CASE node.t = "Number" -> node.v
      [] node.t = "Negative" -> CHOOSE v \in {FNeg(e) : e \in {eval(node.e)}} : TRUE
      [] OTHER ->
            CHOOSE v \in {CASE node.t = "Add" -> FAdd(l, r)
                            [] node.t = "Subtract" -> FSub(l, r)
                            [] node.t = "Multiply" -> FMul(l, r)
                            [] node.t = "Divide" -> FDiv(l, r)
                            [] node.t = "Caret" -> FPow(l, r) :
                          l \in {eval(node.l)}, r \in {eval(node.r)}} : TRUE

---------------------------------------------------------------------------
(* Results: Result<Node, ParseError> and Result<f64, ParseError> *)

NoErr == [kind |-> "None", msg |-> <<>>]

NoRet == [ok |-> FALSE, node |-> NoNode, err |-> NoErr]

Ok(node) == [ok |-> TRUE, node |-> node, err |-> NoErr]

Err(kind, msg) == [ok |-> FALSE, node |-> NoNode, err |-> [kind |-> kind, msg |-> msg]]

InvalidCharacter == Err("InvalidOperator", <<"Invalid character">>)

UnableToParse == Err("UnableToParse", <<"Unable to parse">>)

IsErr(r) == ~r.ok /\ r.err.kind # "None"

---------------------------------------------------------------------------
(* Input lines *)

Ops == {"+", "-", "*", "/", "^"}

\* the characters of the exhaustively enumerated expressions; "#" stands for
\* any character the tokenizer has no rule for
Alphabet == {"1", "2", "."} \cup Ops \cup {"(", ")", "#"}

Strings(n) == UNION {[1..k -> Alphabet] : k \in 0..n}

\* what read_line stores for a typed expression
Line(s) == s \o <<"\n">>

Paren(s) == <<"(">> \o s \o <<")">>

Banner == <<"2", "*", "3", "+", "4", "(", "4", "-", "5", ")", "+", "2", "^", "3", "/", "4">>

NamedExprs ==
    { <<"2", "^", "3", "^", "2">>,
      <<"1", "+", "2", "-", "3">>,
      <<"3", "+", "2", "-", "1", "*", "5", "/", "4">>,
      <<"-", "2", "^", "2">>,
      <<"-", "1", "+", "2">>,
      <<"(", "2", ")", "(", "3", ")">>,
      <<"(", "1", "+", "2">>,
      <<"1", ")">>,
      <<"(", "1", ")", "2">>,
      <<>>,
      <<" ", " ">>,
      <<"3", " ", "+", " ", "4">>,
      <<"1", SuperscriptTwo>>,
      <<"1", ".", "5", "+", "2", ".", "2", "5">>,
      <<"-", "(", "2", ")", "(", "3", ")", "^", "4">>,
      <<"-", "(", "2", "+", "3", ")", "*", "4">>,
      <<"-", "-", "2", "^", "2">>,
      <<"(", "(", "1", ")", "2">>,
      <<"q">>,
      <<"1", "+", "q">>,
      Banner }

\* a op1 b op2 c for all operators and operands 2, 3
ThreeOperand ==
    { <<a, o1, b, o2, c>> : a \in {"2", "3"}, b \in {"2", "3"}, c \in {"2", "3"},
                            o1 \in Ops, o2 \in Ops }

\* a op (b)(c) and a op (b)*(c) for all operators and operands 2, 3
AfterOperator ==
    { <<a, o, "(", b, ")">> \o m \o <<"(", c, ")">> :
          a \in {"2", "3"}, b \in {"2", "3"}, c \in {"2", "3"},
          o \in Ops, m \in {<<>>, <<"*">>} }

Atoms == {<<"1">>, <<"2">>}

\* small expressions X, Y for the sessions X, Y, (X)(Y); the last four are
\* not well-formed
SubExprs ==
    Atoms
    \cup {<<"-">> \o a : a \in Atoms}
    \cup {a \o <<o>> \o b : a \in Atoms, b \in Atoms, o \in {"+", "^"}}
    \cup {Paren(a) : a \in Atoms}
    \cup {Paren(a) \o Paren(b) : a \in Atoms, b \in Atoms}
    \cup {<<"1", ")">>, <<"1", ")", "(", "2">>, <<"(", "1">>, <<"1", "+">>}

\* what is typed on standard input: one line, or the three lines X, Y, (X)(Y)
Sessions ==
    {<<Line(s)>> : s \in Strings(MaxLen) \cup NamedExprs \cup ThreeOperand \cup AfterOperator}
    \cup {<<Line(x), Line(y), Line(Paren(x) \o Paren(y))>> : x \in SubExprs, y \in SubExprs}

---------------------------------------------------------------------------
(* The template line classifier: chapter-3/src/lib.rs.  Lines are ASCII, so *)
(* a byte index is a character index.                                       *)

\* input.contains(symbol)
check_symbol_string(in, symbol) ==
    \E i \in 1..(Len(in) - Len(symbol) + 1) :
        SubSeq(in, i, i + Len(symbol) - 1) = symbol

check_matching_pairs(in, symbol1, symbol2) ==
    check_symbol_string(in, symbol1) /\ check_symbol_string(in, symbol2)

\* the pair (does_exist, index): the 0-based index of the first occurrence of
\* symbol, or (FALSE, 0)
get_index_for_symbol(in, symbol) ==
    LET at == {c \in DOMAIN in : in[c] = symbol}
    IN  IF at = {} THEN <<FALSE, 0>>
        ELSE <<TRUE, (CHOOSE c \in at : \A d \in at : c <= d) - 1>>

\* the slice in[from..to] (0-based, to excluded), which panics when
\* from > to or to > len
SliceOk(in, from, to) == from <= to /\ to <= Len(in)

Slice(in, from, to) == SubSeq(in, from + 1, to)

NoData == [panic |-> FALSE, head |-> <<>>, variable |-> <<>>, tail |-> <<>>]

SlicePanic == [panic |-> TRUE, head |-> <<>>, variable |-> <<>>, tail |-> <<>>]

\* get_expression_data, lines 86-97: head up to the first '{', variable from
\* two bytes after it up to the first '}', tail from two bytes after that
get_expression_data(in) ==
    LET i == get_index_for_symbol(in, "{")[2]
        k == get_index_for_symbol(in, "}")[2]
    IN  IF ~SliceOk(in, 0, i) \/ ~SliceOk(in, i + 1 + 1, k)
           \/ ~SliceOk(in, k + 1 + 1, Len(in))
        THEN SlicePanic
        ELSE [panic |-> FALSE,
              head |-> Slice(in, 0, i),
              variable |-> Slice(in, i + 1 + 1, k),
              tail |-> Slice(in, k + 1 + 1, Len(in))]

Content(type, data, text) == [type |-> type, data |-> data, text |-> text]

NoContent == Content("None", NoData, <<>>)

\* get_content_type, lines 28-73; a panic inside get_expression_data leaves
\* the TemplateVariable branch with data.panic
get_content_type(in) ==
    LET is_tag_expression == check_matching_pairs(in, <<"{", "%">>, <<"%", "}">>)
        is_for_tag == \/ /\ check_symbol_string(in, <<"f", "o", "r">>)
                         /\ check_symbol_string(in, <<"i", "n">>)
                      \/ check_symbol_string(in, <<"e", "n", "d", "f", "o", "r">>)
        is_if_tag == \/ check_symbol_string(in, <<"i", "f">>)
                     \/ check_symbol_string(in, <<"e", "n", "d", "i", "f">>)
        is_template_variable == check_matching_pairs(in, <<"{", "{">>, <<"}", "}">>)
    IN  IF is_tag_expression /\ is_for_tag THEN Content("ForTag", NoData, <<>>)
        ELSE IF is_tag_expression /\ is_if_tag THEN Content("IfTag", NoData, <<>>)
        ELSE IF is_template_variable
             THEN Content("TemplateVariable", get_expression_data(in), <<>>)
        ELSE IF ~is_tag_expression /\ ~is_template_variable
             THEN Content("Literal", NoData, in)
        ELSE Content("Unrecognised", NoData, <<>>)

\* main.rs of chapter-3, lines 11-13: the context of the template variables
context ==
    [key \in {<<"n", "a", "m", "e">>, <<"c", "i", "t", "y">>} |->
        IF key = <<"n", "a", "m", "e">> THEN <<"B", "o", "b">>
        ELSE <<"L", "o", "n", "d", "o", "n">>]

\* generate_html_template_var: head, the value of the variable if the
\* context has one, tail
generate_html_template_var(data, ctx) ==
    data.head
      \o (IF data.variable \in DOMAIN ctx THEN ctx[data.variable] ELSE <<>>)
      \o data.tail

\* main.rs of chapter-3, lines 24-34: what the match prints
PrintedFor(c) ==
    CASE c.type = "TemplateVariable" -> generate_html_template_var(c.data, context)
      [] c.type = "Literal" -> c.text
      [] c.type = "ForTag" -> <<"ForTag not yet implemented!">>
      [] c.type = "IfTag" -> <<"IfTag not yet implemented!">>
      [] c.type = "Unrecognised" -> <<"Unrecognised input!">>

TemplateAlphabet == {"{", "}", "%", "x"}

TemplateStrings(n) == UNION {[1..k -> TemplateAlphabet] : k \in 0..n}

HiNameWelcome ==
    <<"H", "i", " ", "{", "{", "n", "a", "m", "e", "}", "}", ",", " ",
      "w", "e", "l", "c", "o", "m", "e">>

\* the lines of the tests of lib.rs, and lines with braces around the variable
NamedLines ==
    { HiNameWelcome,
      <<"<", "h", "1", ">", "H", "e", "l", "l", "o", "<", "/", "h", "1", ">">>,
      <<"{", "%", " ", "f", "o", "r", " ", "n", " ", "i", "n", " ", "n", "s", " ", "%", "}">>,
      <<"{", "%", " ", "e", "n", "d", "f", "o", "r", " ", "%", "}">>,
      <<"{", "%", " ", "i", "f", " ", "n", " ", "%", "}">>,
      <<"{", "%", " ", "a", " ", "%", "}">>,
      <<"{", "%", " ", "a", " ", "%", "}", " ", "{", "{", "c", "i", "t", "y", "}", "}">>,
      <<"{", "{", "c", "i", "t", "y", "}", "}">>,
      <<"a", " ", "{", " ", "b", " ", "{", "{", "n", "a", "m", "e", "}", "}">>,
      <<"}", "}", " ", "{", "{", "n", "a", "m", "e", "}", "}">>,
      <<"{", "{", "n", "a", "m", "e", "}", "}", " ", "{", "{", "c", "i", "t", "y", "}", "}">> }

\* what is typed on the standard input of the template program
TemplateSessions ==
    {<<l>> : l \in TemplateStrings(MaxLine) \cup NamedLines}
    \cup {<<a, b>> : a \in NamedLines, b \in NamedLines}

\* the template program is not run
TemplateNotRun ==
    /\ lines = <<>> /\ input_line = <<>> /\ content = NoContent
    /\ printed = <<>> /\ tpc = "off"

---------------------------------------------------------------------------
(* State *)

Frame(fn, pc, oper_prec, node, op, mark) ==
    [fn |-> fn, pc |-> pc, oper_prec |-> oper_prec, node |-> node, op |-> op, mark |-> mark]

\* what one call of evaluate printed and returned to main
Output(line, parsed, lookahead, res) ==
    [line |-> line, parsed |-> parsed, lookahead |-> lookahead, res |-> res]

ValOk(v) == [ok |-> TRUE, val |-> v, err |-> NoErr]

ValErr(e) == [ok |-> FALSE, val |-> Inexact, err |-> e]

Init ==
    /\ stdin \in Sessions
    /\ input = <<>>
    /\ outputs = <<>>
    /\ mpc = "read"
    /\ expr = <<>>
    /\ pos = 0
    /\ tok_start = 0
    /\ current_token = NoToken
    /\ stack = <<>>
    /\ ret = NoRet
    /\ ast = NoNode
    /\ TemplateNotRun

Top == stack[Len(stack)]

Below == SubSeq(stack, 1, Len(stack) - 1)

Running(fn, pc) == mpc = "parsing" /\ stack # <<>> /\ Top.fn = fn /\ Top.pc = pc

\* return r to the caller
Return(r) == stack' = Below /\ ret' = r

\* call callee, to resume the current frame as cont
Call(cont, callee) == stack' = Below \o <<cont, callee>> /\ ret' = NoRet

\* evaluate returns Err(e) to main, which prints the error line; the parser is dropped
EvaluateFails(e, lookahead) ==
    /\ outputs' = Append(outputs, Output(input, e, lookahead, ValErr(e.err)))
    /\ mpc' = "read"
    /\ expr' = <<>> /\ pos' = 0 /\ tok_start' = 0 /\ current_token' = NoToken
    /\ stack' = <<>> /\ ret' = NoRet /\ ast' = NoNode

---------------------------------------------------------------------------
(* main.rs: the read-evaluate-print loop *)

\* main: read_line delivers a line holding no 'q', which is handed to evaluate;
\* with no line typed, read_line blocks (standard input is a terminal that
\* stays open and does not fail)
main_read_line ==
    /\ UNCHANGED tvars
    /\ mpc = "read" /\ stdin # <<>>
    /\ \A i \in DOMAIN Head(stdin) : Head(stdin)[i] # "q"
    /\ input' = Head(stdin)
    /\ stdin' = Tail(stdin)
    /\ mpc' = "evaluate"
    /\ UNCHANGED <<outputs, expr, pos, tok_start, current_token, stack, ret, ast>>

\* main: a line holding 'q' ends the loop
main_quit ==
    /\ UNCHANGED tvars
    /\ mpc = "read" /\ stdin # <<>>
    /\ \E i \in DOMAIN Head(stdin) : Head(stdin)[i] = "q"
    /\ input' = Head(stdin)
    /\ stdin' = Tail(stdin)
    /\ mpc' = "exit"
    /\ UNCHANGED <<outputs, expr, pos, tok_start, current_token, stack, ret, ast>>

\* split_whitespace().collect::<String>()
StripWhitespace(line) == SelectSeq(line, LAMBDA c : c \notin Whitespace)

\* evaluate: strips the whitespace and calls Parser::new, which asks the
\* tokenizer for the first token
Parser_new ==
    /\ UNCHANGED tvars
    /\ mpc = "evaluate"
    /\ LET e == StripWhitespace(input)
           r == Tokenizer_next(e, 0)
       IN  CASE r.kind = "Some" ->
                  /\ expr' = e /\ pos' = r.pos /\ tok_start' = 0
                  /\ current_token' = r.tok
                  /\ mpc' = "parse"
                  /\ UNCHANGED <<outputs, stack, ret, ast>>
             [] r.kind = "None" -> EvaluateFails(InvalidCharacter, NoToken)
             [] r.kind = "Panic" ->
                  /\ expr' = e /\ pos' = r.pos
                  /\ mpc' = "panicked"
                  /\ UNCHANGED <<outputs, tok_start, current_token, stack, ret, ast>>
    /\ UNCHANGED <<stdin, input>>

\* Parser::parse calls generate_ast(DefaultZero)
Parser_parse ==
    /\ UNCHANGED tvars
    /\ mpc = "parse"
    /\ mpc' = "parsing"
    /\ stack' = <<Frame("generate_ast", "start", "DefaultZero", NoNode, "None", 0)>>
    /\ ret' = NoRet
    /\ UNCHANGED <<stdin, input, outputs, expr, pos, tok_start, current_token, ast>>

\* Parser::parse returns what generate_ast returned; evaluate propagates an
\* error to main and otherwise prints the tree
Parser_parse_ret ==
    /\ UNCHANGED tvars
    /\ mpc = "parsing" /\ stack = <<>>
    /\ IF ret.ok
       THEN /\ ast' = ret.node
            /\ mpc' = "eval"
            /\ ret' = NoRet
            /\ UNCHANGED <<outputs, expr, pos, tok_start, current_token, stack>>
       ELSE EvaluateFails(ret, current_token)
    /\ UNCHANGED <<stdin, input>>

\* evaluate: ast::eval on the tree; main prints the computed number
ast_eval ==
    /\ UNCHANGED tvars
    /\ mpc = "eval"
    /\ outputs' = Append(outputs, Output(input, Ok(ast), current_token, ValOk(eval(ast))))
    /\ mpc' = "read"
    /\ expr' = <<>> /\ pos' = 0 /\ tok_start' = 0 /\ current_token' = NoToken
    /\ stack' = <<>> /\ ret' = NoRet /\ ast' = NoNode
    /\ UNCHANGED <<stdin, input>>

---------------------------------------------------------------------------
(* parser.rs: the private methods *)

get_next_token_stuck(then) ==
    /\ UNCHANGED <<pos, current_token, tok_start, mpc>>
    /\ then

\* get_next_token: on Some(token) the lookahead is replaced and the caller goes
\* on with `then`; on None the caller's `?` returns the error; the tokenizer's
\* panic unwinds the program
get_next_token(then) ==
    LET r == Tokenizer_next(expr, pos) IN
    /\ pos' = r.pos
    /\ CASE r.kind = "Some" ->
              /\ current_token' = r.tok /\ tok_start' = pos /\ mpc' = mpc
              /\ then
         [] r.kind = "None" ->
              /\ UNCHANGED <<current_token, tok_start, mpc>>
              /\ Return(InvalidCharacter)
         [] r.kind = "Panic" ->
              /\ UNCHANGED <<current_token, tok_start>>
              /\ mpc' = "panicked" /\ stack' = <<>> /\ ret' = NoRet

KeepLookahead == UNCHANGED <<pos, tok_start, current_token, mpc>>

\* generate_ast, line 67: the call of parse_number
generate_ast_start ==
    /\ UNCHANGED tvars
    /\ Running("generate_ast", "start")
    /\ Call([Top EXCEPT !.pc = "loop"], Frame("parse_number", "start", "None", NoNode, "None", 0))
    /\ KeepLookahead
    /\ UNCHANGED <<stdin, input, outputs, expr, ast>>

loop_cond_or_equal(oper_prec, tok) ==
    OperPrecRank(oper_prec) <= OperPrecRank(get_oper_prec(tok))

\* generate_ast, line 68: the condition of the while loop
loop_cond(oper_prec, tok) ==
    OperPrecRank(oper_prec) < OperPrecRank(get_oper_prec(tok))

\* generate_ast, lines 67-78: left_expr receives what parse_number or
\* convert_token_to_node returned, then the loop is tested
generate_ast_loop ==
    /\ UNCHANGED tvars
    /\ Running("generate_ast", "loop")
    /\ IF IsErr(ret) THEN Return(ret)
       ELSE IF loop_cond(Top.oper_prec, current_token)
       THEN IF current_token = EoF
            THEN Return(Ok(ret.node))
            ELSE Call([Top EXCEPT !.node = ret.node],
                      Frame("convert_token_to_node", "start", "None", ret.node, "None", 0))
       ELSE Return(Ok(ret.node))
    /\ KeepLookahead
    /\ UNCHANGED <<stdin, input, outputs, expr, ast>>

negative_floor_low == "AddSub"

\* parse_number, line 93: the floor of the operand of a unary minus
negative_floor == "Negative"

\* parse_number, lines 89-101 and 110: the match on the lookahead
parse_number_start ==
    /\ UNCHANGED tvars
    /\ Running("parse_number", "start")
    /\ CASE current_token.type = "Subtract" ->
              get_next_token(
                Call([Top EXCEPT !.pc = "neg_ret", !.mark = pos],
                     Frame("generate_ast", "start", negative_floor, NoNode, "None", 0)))
         [] current_token.type = "Num" ->
              get_next_token(Return(Ok(Number(current_token.val))))
         [] current_token.type = "LeftParen" ->
              get_next_token(
                Call([Top EXCEPT !.pc = "paren_ret", !.mark = pos],
                     Frame("generate_ast", "start", "DefaultZero", NoNode, "None", 0)))
         [] OTHER -> Return(UnableToParse) /\ KeepLookahead
    /\ UNCHANGED <<stdin, input, outputs, expr, ast>>

\* parse_number, lines 93-94: the operand of the unary minus is back
parse_number_neg_ret ==
    /\ UNCHANGED tvars
    /\ Running("parse_number", "neg_ret")
    /\ IF IsErr(ret) THEN Return(ret) ELSE Return(Ok(Negative(ret.node)))
    /\ KeepLookahead
    /\ UNCHANGED <<stdin, input, outputs, expr, ast>>

check_paren_matches_any(expect, tok) == TRUE

adjacent_group_never(tok) == FALSE

\* parse_number, line 104: is the closed group directly followed by another one
adjacent_group(tok) == tok = LeftParen

check_paren_matches_at_end(expect, tok) == expect = tok \/ tok = EoF

\* check_paren, line 161
check_paren_matches(expect, tok) == expect = tok

\* parse_number, lines 102-108: the parenthesized expression is back;
\* check_paren, then the test for an adjacent group
parse_number_paren_ret ==
    /\ UNCHANGED tvars
    /\ Running("parse_number", "paren_ret")
    /\ IF IsErr(ret) THEN Return(ret) /\ KeepLookahead
       ELSE IF check_paren_matches(RightParen, current_token)
       THEN get_next_token(
              IF adjacent_group(current_token')
              THEN Call([Top EXCEPT !.pc = "right_ret", !.node = ret.node],
                        Frame("generate_ast", "start", "MulDiv", NoNode, "None", 0))
              ELSE Return(Ok(ret.node)))
       ELSE /\ Return(Err("InvalidOperator", <<"Expected", RightParen, "Got", current_token>>))
            /\ KeepLookahead
    /\ UNCHANGED <<stdin, input, outputs, expr, ast>>

\* parse_number, lines 105-106: the adjacent group is back
parse_number_right_ret ==
    /\ UNCHANGED tvars
    /\ Running("parse_number", "right_ret")
    /\ IF IsErr(ret) THEN Return(ret)
       ELSE Return(Ok(Binary("Multiply", Top.node, ret.node)))
    /\ KeepLookahead
    /\ UNCHANGED <<stdin, input, outputs, expr, ast>>

\* convert_token_to_node: the floor each operator passes to generate_ast
operand_floor(op) ==
    CASE op \in {"Add", "Subtract"} -> "AddSub"
      [] op \in {"Multiply", "Divide"} -> "MulDiv"
      [] op = "Caret" -> "Power"

\* convert_token_to_node, lines 116-149: the match on the lookahead
convert_token_to_node_start ==
    /\ UNCHANGED tvars
    /\ Running("convert_token_to_node", "start")
    /\ IF current_token.type \in {"Add", "Subtract", "Multiply", "Divide", "Caret"}
       THEN get_next_token(
              Call([Top EXCEPT !.pc = "ast_ret", !.op = current_token.type],
                   Frame("generate_ast", "start", operand_floor(current_token.type),
                         NoNode, "None", 0)))
       ELSE /\ Return(Err("InvalidOperator",
                          <<"Please enter a valid operator", current_token>>))
            /\ KeepLookahead
    /\ UNCHANGED <<stdin, input, outputs, expr, ast>>

\* convert_token_to_node: the right operand is back, the binary node is built
convert_token_to_node_ret ==
    /\ UNCHANGED tvars
    /\ Running("convert_token_to_node", "ast_ret")
    /\ IF IsErr(ret) THEN Return(ret)
       ELSE Return(Ok(Binary(Top.op, Top.node, ret.node)))
    /\ KeepLookahead
    /\ UNCHANGED <<stdin, input, outputs, expr, ast>>

---------------------------------------------------------------------------

Next ==
    \/ main_read_line
    \/ main_quit
    \/ Parser_new
    \/ Parser_parse
    \/ Parser_parse_ret
    \/ ast_eval
    \/ generate_ast_start
    \/ generate_ast_loop
    \/ parse_number_start
    \/ parse_number_neg_ret
    \/ parse_number_paren_ret
    \/ parse_number_right_ret
    \/ convert_token_to_node_start
    \/ convert_token_to_node_ret

Spec == Init /\ [][Next]_vars

\* the program is one thread that keeps executing: a step that can be taken
\* is taken
FairSpec == Spec /\ WF_vars(Next)

---------------------------------------------------------------------------
(* chapter-3/src/main.rs: the loop over the lines of standard input *)

\* the expression evaluator is not run
EvaluatorNotRun ==
    /\ stdin = <<>> /\ input = <<>> /\ outputs = <<>> /\ mpc = "off"
    /\ expr = <<>> /\ pos = 0 /\ tok_start = 0 /\ current_token = NoToken
    /\ stack = <<>> /\ ret = NoRet /\ ast = NoNode

TemplateInit ==
    /\ lines \in TemplateSessions
    /\ input_line = <<>>
    /\ content = NoContent
    /\ printed = <<>>
    /\ tpc = "lines"
    /\ EvaluatorNotRun

\* one iteration of the for loop: the line is classified and the result is
\* printed; a panic inside get_content_type ends the program
template_main_line ==
    /\ tpc = "lines" /\ lines # <<>>
    /\ LET c == get_content_type(Head(lines)) IN
          /\ input_line' = Head(lines)
          /\ lines' = Tail(lines)
          /\ content' = c
          /\ IF c.data.panic
             THEN tpc' = "panicked" /\ printed' = printed
             ELSE tpc' = tpc /\ printed' = Append(printed, PrintedFor(c))
    /\ UNCHANGED pvars

\* standard input is at its end: main returns
template_main_end ==
    /\ tpc = "lines" /\ lines = <<>>
    /\ tpc' = "exit"
    /\ UNCHANGED <<lines, input_line, content, printed>>
    /\ UNCHANGED pvars

TemplateNext ==
    \/ template_main_line
    \/ template_main_end

TemplateSpec == TemplateInit /\ [][TemplateNext]_vars

---------------------------------------------------------------------------
(* Vocabulary of the properties *)

\* the expression of an output record, as the parser received it
ExprOf(o) == StripWhitespace(o.line)

Whole(k) == [n |-> k, d |-> 1]

Operand(c) == Number(Whole(DigitVal(c)))

NodeOf(c) ==
    CASE c = "+" -> "Add" [] c = "-" -> "Subtract" [] c = "*" -> "Multiply"
      [] c = "/" -> "Divide" [] c = "^" -> "Caret"

\* the precedence level the grammar gives an operator character
Level(c) == CASE c \in {"+", "-"} -> 1 [] c \in {"*", "/"} -> 2 [] c = "^" -> 3

\* e is "a op1 b op2 c" with one-digit operands
IsThreeOperand(e) ==
    /\ Len(e) = 5
    /\ e[1] \in Digits /\ e[3] \in Digits /\ e[5] \in Digits
    /\ e[2] \in Ops /\ e[4] \in Ops

LeftNested(e) ==
    Binary(NodeOf(e[4]), Binary(NodeOf(e[2]), Operand(e[1]), Operand(e[3])), Operand(e[5]))

RightNested(e) ==
    Binary(NodeOf(e[2]), Operand(e[1]), Binary(NodeOf(e[4]), Operand(e[3]), Operand(e[5])))

\* C1: exponentiation is right-associative: "a^b^c" parses to
\* Caret(a, Caret(b, c)), and "2^3^2" evaluates to 512
C1_PowerRightAssociative ==
    \A i \in DOMAIN outputs :
        LET o == outputs[i]
            e == ExprOf(o)
        IN  (IsThreeOperand(e) /\ e[2] = "^" /\ e[4] = "^") =>
                /\ o.parsed = Ok(RightNested(e))
                /\ (e = <<"2", "^", "3", "^", "2">> => o.res = ValOk(Whole(512)))

\* what the code does with "2^3^2": Caret(Caret(2, 3), 2), which is 64
C1_CodeIsLeftAssociative ==
    \A i \in DOMAIN outputs :
        LET o == outputs[i]
            e == ExprOf(o)
        IN  (IsThreeOperand(e) /\ e[2] = "^" /\ e[4] = "^") =>
                /\ o.parsed = Ok(LeftNested(e))
                /\ (e = <<"2", "^", "3", "^", "2">> => o.res = ValOk(Whole(64)))

\* C2: of two neighbouring operators of different precedence level the higher
\* one binds tighter, whichever comes first, and "3+2-1*5/4" evaluates to 3.75
C2_HigherPrecedenceBindsTighter ==
    \A i \in DOMAIN outputs :
        LET o == outputs[i]
            e == ExprOf(o)
        IN  /\ (IsThreeOperand(e) /\ Level(e[2]) < Level(e[4])) =>
                   o.parsed = Ok(RightNested(e))
            /\ (IsThreeOperand(e) /\ Level(e[2]) > Level(e[4])) =>
                   o.parsed = Ok(LeftNested(e))
            /\ (e = <<"3", "+", "2", "-", "1", "*", "5", "/", "4">>) =>
                   o.res = ValOk([n |-> 15, d |-> 4])

C2_Witness ==
    /\ \E i \in DOMAIN outputs :
           ExprOf(outputs[i]) = <<"3", "+", "2", "-", "1", "*", "5", "/", "4">>
           /\ outputs[i].res = ValOk([n |-> 15, d |-> 4])

\* C3: + - * / are left-associative: two operators of the same level among
\* them nest to the left, "1+2-3" parses to Subtract(Add(1, 2), 3) and is 0
C3_LeftAssociative ==
    \A i \in DOMAIN outputs :
        LET o == outputs[i]
            e == ExprOf(o)
        IN  (IsThreeOperand(e) /\ e[2] # "^" /\ Level(e[2]) = Level(e[4])) =>
                /\ o.parsed = Ok(LeftNested(e))
                /\ (e = <<"1", "+", "2", "-", "3">> =>
                       /\ o.parsed = Ok(Binary("Subtract",
                              Binary("Add", Number(Whole(1)), Number(Whole(2))), Number(Whole(3))))
                       /\ o.res = ValOk(Whole(0)))

C3_Witness ==
    \E i \in DOMAIN outputs :
        /\ ExprOf(outputs[i]) = <<"1", "+", "2", "-", "3">>
        /\ outputs[i].res = ValOk(Whole(0))

\* the index of the ')' that closes the '(' at t[i], 0 if there is none
RECURSIVE MatchParen(_, _, _)
MatchParen(t, i, depth) ==
    IF i > Len(t) THEN 0
    ELSE LET d2 == depth + (IF t[i] = "(" THEN 1 ELSE IF t[i] = ")" THEN -1 ELSE 0)
         IN  IF d2 = 0 THEN i ELSE MatchParen(t, i + 1, d2)

\* t is the text of one primary expression: a numeric literal, a '-' before
\* a primary expression, or one parenthesized group; with chain, also a
\* group that is directly followed by another '('
RECURSIVE IsPrimaryText(_, _)
IsPrimaryText(t, chain) ==
    /\ t # <<>>
    /\ CASE t[1] \in Digits -> \A i \in DOMAIN t : IsNumeric(t[i]) \/ t[i] = "."
         [] t[1] = "-" -> IsPrimaryText(Tail(t), chain)
         [] t[1] = "(" -> LET m == MatchParen(t, 1, 0)
                          IN  \/ m = Len(t)
                              \/ chain /\ m > 0 /\ m < Len(t) /\ t[m + 1] = "("
         [] OTHER -> FALSE

\* the operand of a unary minus has just been returned to parse_number
NegativeOperandBack == Running("parse_number", "neg_ret") /\ ret.ok

\* the text the operand was parsed from: from the token after the '-' up to
\* the lookahead
NegativeOperandText == SubSeq(expr, Top.mark + 1, tok_start)

UnaryMinusExamples ==
    \A i \in DOMAIN outputs :
        LET o == outputs[i]
            e == ExprOf(o)
        IN  /\ e = <<"-", "2", "^", "2">> =>
                 /\ o.parsed = Ok(Binary("Caret", Negative(Number(Whole(2))), Number(Whole(2))))
                 /\ o.res = ValOk(Whole(4))
            /\ e = <<"-", "1", "+", "2">> =>
                 o.parsed = Ok(Binary("Add", Negative(Number(Whole(1))), Number(Whole(2))))

\* C4 as stated: the child of a Negative node is exactly one primary
\* expression (a number, a nested negation or a parenthesized group), never a
\* binary node built from the operators that follow; "-2^2" is
\* Caret(Negative(2), 2) = 4 and "-1+2" is Add(Negative(1), 2)
C4_NegativeChildIsOnePrimary ==
    /\ NegativeOperandBack => IsPrimaryText(NegativeOperandText, FALSE)
    /\ UnaryMinusExamples

\* C4 amended: the child of a Negative node is what one call of parse_number
\* returns: a number, a nested negation, a parenthesized group, or the
\* implicit product that parse_number builds when the group is directly
\* followed by '(' (in "-(2)(3)^4" the child is Multiply(2, Caret(3, 4)));
\* the loop of generate_ast(Negative) never runs, so no operator written after
\* a number or after a group that no '(' follows is taken into the child
C4_NegativeChildIsOneParseNumber ==
    /\ NegativeOperandBack =>
          /\ IsPrimaryText(NegativeOperandText, TRUE)
          /\ ~IsPrimaryText(NegativeOperandText, FALSE) => ret.node.t = "Multiply"
    /\ \A i \in 1..(Len(stack) - 1) :
          (stack[i].fn = "generate_ast" /\ stack[i].oper_prec = "Negative") =>
              stack[i + 1].fn = "parse_number"
    /\ UnaryMinusExamples
    /\ \A i \in DOMAIN outputs :
          ExprOf(outputs[i]) = <<"-", "(", "2", ")", "(", "3", ")", "^", "4">> =>
              outputs[i].parsed =
                  Ok(Negative(Binary("Multiply", Number(Whole(2)),
                        Binary("Caret", Number(Whole(3)), Number(Whole(4))))))

C4_Witness ==
    /\ NegativeOperandBack
    /\ NegativeOperandText = <<"(", "2", ")", "(", "3", ")", "^", "4">>
    /\ ret.node = Binary("Multiply", Number(Whole(2)),
                         Binary("Caret", Number(Whole(3)), Number(Whole(4))))

\* an expression is well-formed when it parses to a tree with nothing left over
WellFormed(o) == o.parsed.ok /\ o.lookahead = EoF

\* the session typed X, Y and (X)(Y), and all three are answered
GroupsSession ==
    /\ Len(outputs) = 3
    /\ ExprOf(outputs[3]) = Paren(ExprOf(outputs[1])) \o Paren(ExprOf(outputs[2]))

\* C5: for well-formed X and Y, "(X)(Y)" parses to Multiply(tree(X), tree(Y)),
\* and "(2)(3)" evaluates to 6
C5_ImplicitMultiplication ==
    /\ (GroupsSession /\ WellFormed(outputs[1]) /\ WellFormed(outputs[2])) =>
          /\ outputs[3].parsed =
                 Ok(Binary("Multiply", outputs[1].parsed.node, outputs[2].parsed.node))
          /\ outputs[3].lookahead = EoF
          /\ outputs[3].res = ValOk(FMul(outputs[1].res.val, outputs[2].res.val))
    /\ \A i \in DOMAIN outputs :
          ExprOf(outputs[i]) = <<"(", "2", ")", "(", "3", ")">> =>
              /\ outputs[i].parsed = Ok(Binary("Multiply", Number(Whole(2)), Number(Whole(3))))
              /\ outputs[i].res = ValOk(Whole(6))

C5_Witness ==
    /\ GroupsSession /\ WellFormed(outputs[1]) /\ WellFormed(outputs[2])
    /\ ExprOf(outputs[1]) = <<"1", "+", "2">>
    /\ ExprOf(outputs[2]) = <<"(", "1", ")", "(", "2", ")">>
    /\ outputs[3].res = ValOk(Whole(6))

\* the next step asks the tokenizer for a token: Parser::new, or one of the
\* calls of get_next_token
AsksTokenizer ==
    \/ mpc = "evaluate"
    \/ Running("parse_number", "start")
         /\ current_token.type \in {"Subtract", "Num", "LeftParen"}
    \/ Running("parse_number", "paren_ret") /\ ret.ok /\ current_token = RightParen
    \/ Running("convert_token_to_node", "start")
         /\ current_token.type \in {"Add", "Subtract", "Multiply", "Divide", "Caret"}

\* the text the tokenizer holds at that step, and how much of it is consumed
AskedText == IF mpc = "evaluate" THEN StripWhitespace(input) ELSE expr

AskedPos == IF mpc = "evaluate" THEN 0 ELSE pos

\* at position p of e a digit starts a run of digits and decimal points whose
\* next character is '('
NumberThenParen(e, p) ==
    /\ p < Len(e) /\ e[p + 1] \in Digits
    /\ \E j \in (p + 1)..(Len(e) - 1) :
          /\ \A k \in (p + 1)..j : e[k] \in Digits \cup {"."}
          /\ e[j + 1] = "("

\* evaluate returned the error r to main
Reported(r) == outputs' = Append(outputs, Output(input, r, current_token, ValErr(r.err)))

\* an error returned inside the parser reaches main unchanged: every caller
\* hands it on, no tree is built from it and nothing panics
ErrorStep == (mpc = "parsing" /\ IsErr(ret)) => (ret' = ret /\ mpc' = mpc) \/ Reported(ret)

\* C6: a token request that meets a numeric literal directly followed by '('
\* gets no token, and Parser::new or get_next_token turns that into
\* InvalidOperator("Invalid character"), which is the result of the parse
C6_NumberThenParenRejected ==
    /\ [][(AsksTokenizer /\ NumberThenParen(AskedText, AskedPos)) =>
            /\ Tokenizer_next(AskedText, AskedPos).kind = "None"
            /\ IF mpc = "evaluate"
               THEN outputs' = Append(outputs,
                        Output(input, InvalidCharacter, NoToken, ValErr(InvalidCharacter.err)))
               ELSE ret' = InvalidCharacter /\ stack' = Below /\ mpc' = mpc]_vars
    /\ [][ErrorStep]_vars
    /\ [](\A i \in DOMAIN outputs :
            NumberThenParen(ExprOf(outputs[i]), 0) =>
                outputs[i].parsed = InvalidCharacter /\ ~outputs[i].res.ok)

C6_Witness ==
    \E i \in DOMAIN outputs :
        /\ ExprOf(outputs[i]) = <<"-", "2", "(">>
        /\ outputs[i].parsed = InvalidCharacter

\* C7: the expression of the start-up banner, "2*3+4(4-5)+2^3/4", evaluates
\* to a number
C7_BannerExpressionEvaluates ==
    \A i \in DOMAIN outputs : ExprOf(outputs[i]) = Banner => outputs[i].res.ok

\* check_paren is reached with a lookahead other than ')'
ParenMismatch == Running("parse_number", "paren_ret") /\ ret.ok /\ current_token # RightParen

Expected(expect, got) == Err("InvalidOperator", <<"Expected", expect, "Got", got>>)

\* C8: when the sub-expression after '(' is not followed by ')', check_paren
\* returns InvalidOperator, which reaches main as the result of the parse:
\* no panic, no tree; "(1+2" fails so with the end-marker as lookahead
C8_MismatchedParenIsInvalidOperator ==
    /\ [][ParenMismatch =>
            /\ ret' = Expected(RightParen, current_token)
            /\ stack' = Below /\ mpc' = mpc]_vars
    /\ [][ErrorStep]_vars
    /\ [](\A i \in DOMAIN outputs :
            ExprOf(outputs[i]) = <<"(", "1", "+", "2">> =>
                /\ outputs[i].parsed = Expected(RightParen, EoF)
                /\ ~outputs[i].res.ok)

C8_Witness ==
    \E i \in DOMAIN outputs :
        /\ ExprOf(outputs[i]) = <<"(", "1", "+", "2">>
        /\ outputs[i].parsed = Expected(RightParen, EoF)

\* C9 as stated: for an empty input the tokenizer yields no token and the
\* parse fails with the InvalidOperator error of tokenizer exhaustion
C9_EmptyInputIsTokenizerExhaustion ==
    \A i \in DOMAIN outputs :
        ExprOf(outputs[i]) = <<>> => outputs[i].parsed = InvalidCharacter

\* C9 amended: for an empty input (also after whitespace is stripped) the
\* tokenizer yields the end-marker, Parser::new succeeds, and parse fails with
\* UnableToParse("Unable to parse") from parse_number; nothing panics
C9_EmptyInputIsUnableToParse ==
    /\ \A i \in DOMAIN outputs :
          ExprOf(outputs[i]) = <<>> =>
              /\ outputs[i].parsed = UnableToParse
              /\ outputs[i].lookahead = EoF
              /\ ~outputs[i].res.ok
    /\ (mpc = "parse" /\ expr = <<>>) => current_token = EoF
    /\ mpc = "panicked" => StripWhitespace(input) # <<>>

C9_Witness ==
    \E i \in DOMAIN outputs :
        /\ outputs[i].line = <<" ", " ", "\n">>
        /\ outputs[i].parsed = UnableToParse

\* C10 as stated: parse returns Ok(tree) only with the end-marker as lookahead
C10_OkOnlyAtEndMarker ==
    /\ mpc = "eval" => current_token = EoF
    /\ \A i \in DOMAIN outputs : outputs[i].parsed.ok => outputs[i].lookahead = EoF

\* C10 amended: parse returns Ok(tree) only when the lookahead is no binary
\* operator and no '(': it is the end-marker, a ')' or a number. Tokens after
\* a valid sub-expression are left unexamined: "1)" and "(1)2" are accepted
\* with the tree Number(1)
C10_OkOnlyAtNonOperator ==
    /\ mpc = "eval" => current_token.type \in {"EoF", "RightParen", "Num"}
    /\ \A i \in DOMAIN outputs :
          LET o == outputs[i] IN
          /\ o.parsed.ok => o.lookahead.type \in {"EoF", "RightParen", "Num"}
          /\ ExprOf(o) = <<"1", ")">> =>
                o.parsed = Ok(Number(Whole(1))) /\ o.lookahead = RightParen
          /\ ExprOf(o) = <<"(", "1", ")", "2">> =>
                o.parsed = Ok(Number(Whole(1))) /\ o.lookahead = Num(Whole(2))

C10_Witness ==
    \E i \in DOMAIN outputs :
        /\ ExprOf(outputs[i]) = <<"(", "1", ")", "2">>
        /\ outputs[i].parsed.ok
        /\ outputs[i].lookahead = Num(Whole(2))

\* the characters the claim of termination is about
GrammarChars == Digits \cup {"."} \cup Ops \cup {"(", ")"}

\* no stretch of digits and decimal points holds two decimal points
WellFormedNumerals(e) ==
    ~\E i \in DOMAIN e, j \in DOMAIN e :
        /\ i < j /\ e[i] = "." /\ e[j] = "."
        /\ \A k \in i..j : e[k] \in Digits \cup {"."}

TerminationInput(e) ==
    (\A i \in DOMAIN e : e[i] \in GrammarChars) /\ WellFormedNumerals(e)

\* a step in which a parser method calls generate_ast again
Recursion ==
    /\ mpc = "parsing" /\ Len(stack') > Len(stack)
    /\ stack'[Len(stack')].fn = "generate_ast"

\* a step that starts an iteration of the loop of generate_ast
LoopIteration ==
    /\ Running("generate_ast", "loop") /\ Len(stack') > Len(stack)

\* C11: on an input of digits, '.', operators and parentheses with well-formed
\* numerals, Parser::new and parse end with a tree or a ParseError and eval
\* ends on the tree (evaluate answers main, nothing panics), because every
\* call that recurses into generate_ast and every iteration of its loop first
\* consumes a token (the lookahead moves on to a later position of the text)
C11_ParseAndEvalTerminate ==
    /\ [](mpc = "panicked" => ~TerminationInput(StripWhitespace(input)))
    /\ ((mpc = "evaluate" /\ TerminationInput(StripWhitespace(input)))
           ~> (mpc = "read" /\ outputs # <<>>
                 /\ outputs[Len(outputs)].line = input
                 /\ (outputs[Len(outputs)].parsed.ok <=> outputs[Len(outputs)].res.ok)))
    /\ [][Recursion => tok_start' > tok_start]_vars
    /\ [][LoopIteration =>
            /\ stack'[Len(stack')].fn = "convert_token_to_node"
            /\ current_token.type \in {"Add", "Subtract", "Multiply", "Divide", "Caret"}]_vars
    /\ [][Running("convert_token_to_node", "start") =>
            \/ Recursion /\ tok_start' > tok_start
            \/ ret' = InvalidCharacter /\ Len(stack') < Len(stack)
            \/ mpc' = "panicked"]_vars

C11_Witness ==
    /\ mpc = "read" /\ outputs # <<>>
    /\ ExprOf(outputs[Len(outputs)]) = <<"3", "+", "2", "-", "1", "*", "5", "/", "4">>
    /\ outputs[Len(outputs)].res.ok

\* a step of a method that may call get_next_token: the match of parse_number,
\* check_paren after a sub-expression that parsed, the match of
\* convert_token_to_node
RequestSite ==
    \/ Running("parse_number", "start")
    \/ Running("parse_number", "paren_ret") /\ ~IsErr(ret)
    \/ Running("convert_token_to_node", "start")

\* the step called get_next_token: the method went on (it called generate_ast
\* or returned a node), or the tokenizer's None or panic ended it; the other
\* branches return an error of their own without a call
GetNextTokenCalled ==
    /\ RequestSite
    /\ \/ Len(stack') > Len(stack)
       \/ ret'.ok
       \/ ret' = InvalidCharacter
       \/ mpc' = "panicked"

\* the tokenizer of the current parse exists after the step
TokenizerLives == mpc' \in {"parse", "parsing", "eval", "panicked"}

\* C13: during a parse get_next_token is never called while the lookahead is
\* the end-marker, and the position of the tokenizer never moves back
C13_NoRequestPastEndMarker ==
    /\ [][GetNextTokenCalled => current_token # EoF]_vars
    /\ [][TokenizerLives => pos' >= pos]_vars

\* the parser holds the end-marker inside a nested call and goes on without
\* asking for a token
C13_Witness ==
    /\ Running("generate_ast", "loop") /\ ret.ok /\ Len(stack) > 2
    /\ current_token = EoF /\ pos = Len(expr)
    /\ expr = <<"(", "1", "+", "2">>

\* e is "a op (b)(c)" with one-digit operands
IsImplicitAfterOperator(e) ==
    /\ Len(e) = 8
    /\ e[1] \in Digits /\ e[2] \in Ops
    /\ e[3] = "(" /\ e[4] \in Digits /\ e[5] = ")"
    /\ e[6] = "(" /\ e[7] \in Digits /\ e[8] = ")"

\* e is "a op (b)*(c)" with one-digit operands
IsExplicitAfterOperator(e) ==
    /\ Len(e) = 9
    /\ e[1] \in Digits /\ e[2] \in Ops
    /\ e[3] = "(" /\ e[4] \in Digits /\ e[5] = ")" /\ e[6] = "*"
    /\ e[7] = "(" /\ e[8] \in Digits /\ e[9] = ")"

\* C14: the implicit product is one primary expression, the whole right
\* operand of the operator before it: "a^(b)(c)" parses to
\* Caret(a, Multiply(b, c)) and "a/(b)(c)" to Divide(a, Multiply(b, c)), while
\* "a^(b)*(c)" and "a/(b)*(c)" parse to Multiply(Caret(a, b), c) and
\* Multiply(Divide(a, b), c)
C14_ImplicitProductIsOnePrimary ==
    \A i \in DOMAIN outputs :
        LET o == outputs[i]
            e == ExprOf(o)
        IN  /\ IsImplicitAfterOperator(e) =>
                 /\ o.parsed = Ok(Binary(NodeOf(e[2]), Operand(e[1]),
                                         Binary("Multiply", Operand(e[4]), Operand(e[7]))))
                 /\ o.lookahead = EoF
            /\ (IsExplicitAfterOperator(e) /\ e[2] \in {"^", "/"}) =>
                 /\ o.parsed = Ok(Binary("Multiply",
                                         Binary(NodeOf(e[2]), Operand(e[1]), Operand(e[4])),
                                         Operand(e[8])))
                 /\ o.parsed # Ok(Binary(NodeOf(e[2]), Operand(e[1]),
                                         Binary("Multiply", Operand(e[4]), Operand(e[8]))))

C14_Witness ==
    \E i \in DOMAIN outputs :
        /\ ExprOf(outputs[i]) = <<"2", "^", "(", "3", ")", "(", "2", ")">>
        /\ outputs[i].parsed = Ok(Binary("Caret", Number(Whole(2)),
                                         Binary("Multiply", Number(Whole(3)), Number(Whole(2)))))
        /\ outputs[i].res = ValOk(Whole(64))

OperatorTokens == {"Add", "Subtract", "Multiply", "Divide", "Caret"}

TokenTypes == OperatorTokens \cup {"LeftParen", "RightParen", "Num", "EoF"}

\* the fallback arm of convert_token_to_node returned its error
IsFallbackError(r) ==
    /\ IsErr(r) /\ r.err.kind = "InvalidOperator"
    /\ r.err.msg[1] = "Please enter a valid operator"

\* C15: convert_token_to_node is entered only with Add, Subtract, Multiply,
\* Divide or Caret as lookahead, so its fallback arm never returns its error,
\* and the loop of generate_ast never finds the end-marker once its condition
\* held (the break is not taken): only those five tokens have a precedence
\* level above DefaultZero
C15_OnlyOperatorsEnterConvert ==
    /\ Running("convert_token_to_node", "start") => current_token.type \in OperatorTokens
    /\ ~IsFallbackError(ret)
    /\ \A i \in DOMAIN outputs : ~IsFallbackError(outputs[i].parsed)
    /\ (Running("generate_ast", "loop") /\ ~IsErr(ret)
          /\ OperPrecRank(Top.oper_prec) < OperPrecRank(get_oper_prec(current_token)))
         => current_token # EoF
    /\ \A ty \in TokenTypes :
          OperPrecRank(get_oper_prec(Tok(ty))) > OperPrecRank("DefaultZero")
              <=> ty \in OperatorTokens

C15_Witness ==
    /\ Running("convert_token_to_node", "start")
    /\ current_token = Tok("Caret") /\ Len(stack) > 2
    /\ expr = <<"-", "(", "2", ")", "(", "3", ")", "^", "4">>

OpenBraces == <<"{", "{">>

CloseBraces == <<"}", "}">>

\* the line was classified as a template variable
IsTemplateVariable == content.type = "TemplateVariable"

\* C12: for a line classified as TemplateVariable the call returns without a
\* panic and head, "{{", variable, "}}", tail put together are the line;
\* "Hi {{name}}, welcome" gives "Hi ", "name", ", welcome"
C12_ExpressionDataSplitsLine ==
    IsTemplateVariable =>
        /\ ~content.data.panic
        /\ content.data.head \o OpenBraces \o content.data.variable
             \o CloseBraces \o content.data.tail = input_line
        /\ tpc # "panicked"

\* the first '{' of the line is followed by '{', and the first '}' of the line
\* comes after that pair and is followed by '}'
BracesComeFirst(l) ==
    LET i == get_index_for_symbol(l, "{")[2] + 1
        k == get_index_for_symbol(l, "}")[2] + 1
    IN  /\ get_index_for_symbol(l, "{")[1] /\ get_index_for_symbol(l, "}")[1]
        /\ i < Len(l) /\ l[i + 1] = "{"
        /\ k > i + 1 /\ k < Len(l) /\ l[k + 1] = "}"

\* what the code does guarantee: when the first '{' of the line opens a "{{"
\* and the first '}' of the line closes it, the line is split around that
\* template variable
C12_SplitsWhenBracesComeFirst ==
    (IsTemplateVariable /\ BracesComeFirst(input_line))
      => /\ ~content.data.panic
         /\ content.data.head \o OpenBraces \o content.data.variable
              \o CloseBraces \o content.data.tail = input_line
         /\ (input_line = HiNameWelcome =>
               /\ content.data.head = <<"H", "i", " ">>
               /\ content.data.variable = <<"n", "a", "m", "e">>
               /\ content.data.tail = <<",", " ", "w", "e", "l", "c", "o", "m", "e">>
               /\ printed[Len(printed)] =
                    <<"H", "i", " ", "B", "o", "b", ",", " ", "w", "e", "l", "c", "o", "m", "e">>)

C12_TestLineIsSplit ==
    /\ IsTemplateVariable /\ input_line = HiNameWelcome
    /\ content.data.variable = <<"n", "a", "m", "e">>

C12_PanicReached ==
    /\ IsTemplateVariable /\ tpc = "panicked"
    /\ input_line = <<"}", "}", "{", "{">>

====
